---------------------------- MODULE Spec2Model ----------------------------
(***************************************************************************)
(* Kalman filter for the damped oscillator of                              *)
(* kalman-filter-presentation/main.py, as a state machine.                 *)
(*                                                                         *)
(* The script's floating-point numbers are modelled as exact rationals     *)
(* <<numerator, denominator>> kept in lowest terms with a positive         *)
(* denominator; <<0, 0>> stands for IEEE NaN and is absorbing.  numpy      *)
(* arrays are sequences (1-D) and sequences of rows (2-D); `@`, `.T`,      *)
(* broadcasting `+`/`-` and np.linalg.solve are modelled by what they      *)
(* compute.  The plotting statements change no numeric state and are left  *)
(* out.                                                                    *)
(***************************************************************************)
EXTENDS Integers, Sequences, FiniteSets, TLC

(* ------------------------------ bounds --------------------------------- *)
\* largest number of time steps T explored (main.py uses 25000)
MaxT == 3

(* --------------------------- rational numbers -------------------------- *)
Abs(a) == IF a < 0 THEN -a ELSE a

RECURSIVE Gcd(_, _)
Gcd(a, b) == IF b = 0 THEN a ELSE Gcd(b, a % b)

NaN == <<0, 0>>
IsNaN(q) == q[2] = 0

\* lowest terms, for d > 0
Norm(n, d) == LET g == Gcd(Abs(n), d) IN <<n \div g, d \div g>>

Q(n) == <<n, 1>>
Zero == <<0, 1>>
One == <<1, 1>>
Half == <<1, 2>>

\* sums and products cancel common factors first, to keep the integers small
RAdd(a, b) == IF IsNaN(a) \/ IsNaN(b) THEN NaN
              ELSE LET g == Gcd(a[2], b[2])
                   IN Norm(a[1] * (b[2] \div g) + b[1] * (a[2] \div g),
                           (a[2] \div g) * b[2])
RNeg(a) == IF IsNaN(a) THEN NaN ELSE <<-a[1], a[2]>>
RSub(a, b) == RAdd(a, RNeg(b))
RMul(a, b) == IF IsNaN(a) \/ IsNaN(b) THEN NaN
              ELSE LET g == Gcd(Abs(a[1]), b[2])
                       h == Gcd(Abs(b[1]), a[2])
                   IN <<(a[1] \div g) * (b[1] \div h),
                        (a[2] \div h) * (b[2] \div g)>>
\* a / b for b # 0
RDiv(a, b) == IF IsNaN(a) \/ IsNaN(b) THEN NaN
              ELSE IF b[1] < 0 THEN RMul(a, <<-b[2], -b[1]>>)
              ELSE RMul(a, <<b[2], b[1]>>)
RIsZero(a) == ~IsNaN(a) /\ a[1] = 0
RGeq0(a) == ~IsNaN(a) /\ a[1] >= 0
RLt0(a) == ~IsNaN(a) /\ a[1] < 0
RGt0(a) == ~IsNaN(a) /\ a[1] > 0

(* ------------------------------ numpy arrays --------------------------- *)
\* every axis of every array of the script has length 1 or 2 (n = 2, p <= 2)
Rows(X) == Len(X)
Cols(X) == Len(X[1])
Max2(a, b) == IF a >= b THEN a ELSE b

\* the array of length len (1 or 2) whose entries are a and, if any, b
Take(len, a, b) == IF len = 1 THEN <<a>> ELSE <<a, b>>

\* sum over l of X[i][l] * Y[l][j]
Dot(X, i, Y, j) ==
  IF Cols(X) = 1 THEN RMul(X[i][1], Y[1][j])
  ELSE RAdd(RMul(X[i][1], Y[1][j]), RMul(X[i][2], Y[2][j]))

\* X @ Y for 2-D X, Y
MatMulRow(X, i, Y) == Take(Cols(Y), Dot(X, i, Y, 1), Dot(X, i, Y, 2))
MatMul(X, Y) == Take(Rows(X), MatMulRow(X, 1, Y), MatMulRow(X, 2, Y))

\* X.T
ColumnOf(X, j) == Take(Rows(X), X[1][j], X[2][j])
Transpose(X) == Take(Cols(X), ColumnOf(X, 1), ColumnOf(X, 2))

\* X @ v for 2-D X and 1-D v: a 1-D array
MatVec(X, v) == Transpose(MatMul(X, Transpose(<<v>>)))[1]

\* numpy broadcasting of two 2-D arrays: an axis of length 1 is stretched
BIdx(len, i) == IF len = 1 THEN 1 ELSE i
BGet(X, i, j) == X[BIdx(Rows(X), i)][BIdx(Cols(X), j)]
BAddRow(X, Y, i) ==
  Take(Max2(Cols(X), Cols(Y)),
       RAdd(BGet(X, i, 1), BGet(Y, i, 1)), RAdd(BGet(X, i, 2), BGet(Y, i, 2)))
BAdd(X, Y) == Take(Max2(Rows(X), Rows(Y)), BAddRow(X, Y, 1), BAddRow(X, Y, 2))
BSubRow(X, Y, i) ==
  Take(Max2(Cols(X), Cols(Y)),
       RSub(BGet(X, i, 1), BGet(Y, i, 1)), RSub(BGet(X, i, 2), BGet(Y, i, 2)))
BSub(X, Y) == Take(Max2(Rows(X), Rows(Y)), BSubRow(X, Y, 1), BSubRow(X, Y, 2))

\* a 0-d array and a 1-D array as numpy broadcasts them against a 2-D one
AsMat0(s) == <<<<s>>>>
AsMat1(v) == <<v>>

\* s * X for a scalar s
ScalarMulRow(s, X, i) == Take(Cols(X), RMul(s, X[i][1]), RMul(s, X[i][2]))
ScalarMul(s, X) == Take(Rows(X), ScalarMulRow(s, X, 1), ScalarMulRow(s, X, 2))

\* determinant of a 1x1 or 2x2 array
Det(X) == IF Rows(X) = 1 THEN X[1][1]
          ELSE RSub(RMul(X[1][1], X[2][2]), RMul(X[1][2], X[2][1]))

\* np.linalg.solve raises LinAlgError exactly when the matrix is singular
Singular(X) == RIsZero(Det(X))

\* inverse of a non-singular 1x1 or 2x2 array
Inverse(X) ==
  LET d == Det(X) IN
  IF Rows(X) = 1 THEN <<<<RDiv(One, d)>>>>
  ELSE << <<RDiv(X[2][2], d), RDiv(RNeg(X[1][2]), d)>>,
          <<RDiv(RNeg(X[2][1]), d), RDiv(X[1][1], d)>> >>

\* np.linalg.solve(a, b): the x with a @ x = b, for non-singular a
Solve(a, b) == MatMul(Inverse(a), b)

(* --------------------------- program state ----------------------------- *)
VARIABLES
  T, dt, w, xi, H, R, x0,     \* global parameters, lines 9-16
  P0,                         \* prior covariance put into kalman_Ps, line 78
  pc,                         \* position in the script
  true_xs,                    \* true states, 1-D arrays
  synth_ys,                   \* synthetic observations, 1-D arrays
  kalman_mus, kalman_Ps, kalman_gains,   \* the three histories
  k,                          \* number of loop iterations completed
  mu_last, P_last, mu_f, P_f, K          \* values bound by the last iteration

params == <<T, dt, w, xi, H, R, x0, P0>>
hist == <<kalman_mus, kalman_Ps, kalman_gains>>
locals == <<mu_last, P_last, mu_f, P_f, K>>
vars == <<params, pc, true_xs, synth_ys, hist, k, locals>>

\* the value of a name the script has not bound yet
Unset == <<>>

(* --------------------------- global parameters ------------------------- *)
I == << <<One, Zero>>, <<Zero, One>> >>
A == << <<Zero, One>>,
        <<RNeg(RMul(w, w)), RNeg(RMul(RMul(Q(2), xi), w))>> >>
M == BAdd(I, ScalarMul(dt, A))
mu0 == << <<Zero>>, <<Zero>> >>

\* sample values of the parameters; the reference run of main.py has
\* w = 1, H = [[1, 0]], R = 5, P0 = I
TVals == -1..MaxT
DtVals == {Q(-1), Zero, One}
WVals == {One}
XiVals == {Zero, Half}
HVals == { << <<One, Zero>> >>, << <<One, One>> >> }
RVals == {Q(-1), Zero, One, Q(5)}
X0Vals == { <<One, Zero>>, <<One, One>> }
ZeroMat == << <<Zero, Zero>>, <<Zero, Zero>> >>
P0Vals == { I, ZeroMat, << <<Q(2), One>>, <<One, One>> >> }
NoiseVals == {Q(-1), One}

Init ==
  /\ T \in TVals
  /\ dt \in DtVals
  /\ w \in WVals
  /\ xi \in XiVals
  /\ H \in HVals
  /\ R \in RVals
  /\ x0 \in X0Vals
  /\ P0 \in P0Vals
  /\ pc = "start"
  /\ true_xs = Unset
  /\ synth_ys = Unset
  /\ kalman_mus = Unset
  /\ kalman_Ps = Unset
  /\ kalman_gains = Unset
  /\ k = 0
  /\ mu_last = Unset
  /\ P_last = Unset
  /\ mu_f = Unset
  /\ P_f = Unset
  /\ K = Unset

(* --------------------------- trajectory -------------------------------- *)
\* true_xs after j rounds of  true_xs += [M @ true_xs[-1]]
RECURSIVE Traj(_)
Traj(j) == IF j = 0 THEN <<x0>>
           ELSE LET xs == Traj(j - 1) IN Append(xs, MatVec(M, xs[Len(xs)]))

\* true_xs after the cut-back of line 54.  The loop of lines 27-28 builds
\* n*T+1 states with n = 30; true_xs[:T+1] keeps the first T+1 of them
\* (none when T < 0), and nothing reads the others but the first plot.
TrueXs == IF T < 0 THEN <<>> ELSE Traj(T)

Simulate ==
  /\ pc = "start"
  /\ true_xs' = TrueXs
  /\ synth_ys' = <<>>
  /\ pc' = "measure"
  /\ UNCHANGED <<params, hist, k, locals>>

(* --------------------------- measurements ------------------------------ *)
\* np.random.normal(0, np.sqrt(R)): a draw is 0 when R = 0
Draws == IF RIsZero(R) THEN {Zero} ELSE NoiseVals

\* H @ x + v, the scalar v added to every component
Observe(x, v) ==
  LET hx == MatVec(H, x) IN Take(Len(hx), RAdd(hx[1], v), RAdd(hx[2], v))

MeasureStep ==
  /\ pc = "measure"
  /\ Len(synth_ys) < Len(true_xs)
  /\ RGeq0(R)
  /\ \E v \in Draws :
       synth_ys' = Append(synth_ys, Observe(true_xs[Len(synth_ys) + 1], v))
  /\ UNCHANGED <<params, pc, true_xs, hist, k, locals>>

\* R < 0: np.sqrt(R) is nan; depending on the numpy build the draw with a
\* nan scale either is nan ...
MeasureNaN ==
  /\ pc = "measure"
  /\ Len(synth_ys) < Len(true_xs)
  /\ RLt0(R)
  /\ synth_ys' = Append(synth_ys, Observe(true_xs[Len(synth_ys) + 1], NaN))
  /\ UNCHANGED <<params, pc, true_xs, hist, k, locals>>

\* ... or raises ValueError("scale < 0")
MeasureRaise ==
  /\ pc = "measure"
  /\ Len(synth_ys) < Len(true_xs)
  /\ RLt0(R)
  /\ pc' = "ValueError"
  /\ UNCHANGED <<params, true_xs, synth_ys, hist, k, locals>>

(* --------------------------- Kalman filter ----------------------------- *)
InitFilter ==
  /\ pc = "measure"
  /\ Len(synth_ys) = Len(true_xs)
  /\ kalman_mus' = <<mu0>>
  /\ kalman_Ps' = <<P0>>
  /\ kalman_gains' = <<>>
  /\ pc' = "filter"
  /\ UNCHANGED <<params, true_xs, synth_ys, k, locals>>

Last(s) == s[Len(s)]

\* the loop bound off by one: range(T + 1)
LoopCond_OneMore == k <= T

\* for k in range(T)
LoopCond == k < T

Forecast_mu(mu) == MatMul(M, mu)
\* the forecast with an additive process-noise term Q = I
Forecast_P_Noise(P) == BAdd(MatMul(MatMul(M, P), Transpose(M)), I)

Forecast_P(P) == MatMul(MatMul(M, P), Transpose(M))

\* R.T + (H @ P_f @ H.T).T
InnovCovT(Pf) ==
  BAdd(Transpose(AsMat0(R)), Transpose(MatMul(MatMul(H, Pf), Transpose(H))))

\* np.linalg.solve(R.T + (H @ P_f @ H.T).T, H @ P_f.T).T
Gain(Pf) == Transpose(Solve(InnovCovT(Pf), MatMul(H, Transpose(Pf))))

\* the filter reading the true state instead of the measurement
ObsAt_Peek(kk) == MatVec(H, true_xs[kk + 1])

\* synth_ys[k]
ObsAt(kk) == synth_ys[kk + 1]

\* the correction with the sign of the innovation flipped
NewMu_Plus(muf, Kk, y) == BAdd(muf, MatMul(Kk, BSub(MatMul(H, muf), AsMat1(y))))

\* mu_f - K @ (H @ mu_f - synth_ys[k])
NewMu(muf, Kk, y) == BSub(muf, MatMul(Kk, BSub(MatMul(H, muf), AsMat1(y))))

\* the covariance update adding the correction instead of subtracting it
NewP_Plus(Pf, Kk) == BAdd(Pf, MatMul(Kk, MatMul(H, Pf)))

\* the covariance update with the factor P_f dropped: P_f - K @ H
NewP_NoPf(Pf, Kk) == BSub(Pf, MatMul(Kk, H))

\* P_f - K @ (H @ P_f)
NewP(Pf, Kk) == BSub(Pf, MatMul(Kk, MatMul(H, Pf)))

KalmanStep ==
  /\ pc = "filter"
  /\ LoopCond
  /\ LET ml == Last(kalman_mus)
         Pl == Last(kalman_Ps)
         mf == Forecast_mu(ml)
         Pf == Forecast_P(Pl)
     IN /\ ~Singular(InnovCovT(Pf))
        /\ LET Kk == Gain(Pf) IN
             /\ mu_last' = ml
             /\ P_last' = Pl
             /\ mu_f' = mf
             /\ P_f' = Pf
             /\ K' = Kk
             /\ kalman_gains' = Append(kalman_gains, Kk)
             /\ kalman_mus' = Append(kalman_mus, NewMu(mf, Kk, ObsAt(k)))
             /\ kalman_Ps' = Append(kalman_Ps, NewP(Pf, Kk))
  /\ k' = k + 1
  /\ UNCHANGED <<params, pc, true_xs, synth_ys>>

\* a solve that returns nan instead of raising, the loop going on
KalmanFail_Swallow ==
  /\ pc = "filter"
  /\ LoopCond
  /\ LET ml == Last(kalman_mus)
         Pl == Last(kalman_Ps)
         mf == Forecast_mu(ml)
         Pf == Forecast_P(Pl)
         Kk == << <<NaN>>, <<NaN>> >>
     IN /\ Singular(InnovCovT(Pf))
        /\ mu_last' = ml
        /\ P_last' = Pl
        /\ mu_f' = mf
        /\ P_f' = Pf
        /\ K' = Kk
        /\ kalman_gains' = Append(kalman_gains, Kk)
        /\ kalman_mus' = Append(kalman_mus, NewMu(mf, Kk, ObsAt(k)))
        /\ kalman_Ps' = Append(kalman_Ps, NewP(Pf, Kk))
  /\ k' = k + 1
  /\ UNCHANGED <<params, pc, true_xs, synth_ys>>

\* np.linalg.solve raises LinAlgError: the script ends at line 89
KalmanFail ==
  /\ pc = "filter"
  /\ LoopCond
  /\ LET ml == Last(kalman_mus)
         Pl == Last(kalman_Ps)
         mf == Forecast_mu(ml)
         Pf == Forecast_P(Pl)
     IN /\ Singular(InnovCovT(Pf))
        /\ mu_last' = ml
        /\ P_last' = Pl
        /\ mu_f' = mf
        /\ P_f' = Pf
  /\ pc' = "LinAlgError"
  /\ UNCHANGED <<params, true_xs, synth_ys, hist, k, K>>

LoopExit ==
  /\ pc = "filter"
  /\ ~LoopCond
  /\ pc' = "done"
  /\ UNCHANGED <<params, true_xs, synth_ys, hist, k, locals>>

Next ==
  \/ Simulate
  \/ MeasureStep
  \/ MeasureNaN
  \/ MeasureRaise
  \/ InitFilter
  \/ KalmanStep
  \/ KalmanFail
  \/ LoopExit

Spec == Init /\ [][Next]_vars

(* ----------------------- squared, noise-free sensor -------------------- *)
\* runs with p = n = 2, an invertible H, R = 0 and a positive definite P0
HSquareVals == { I, << <<One, One>>, <<Zero, One>> >> }
P0PosDefVals == { I, << <<Q(2), One>>, <<One, One>> >> }

InitPerfect ==
  /\ T \in 0..MaxT
  /\ dt \in {One}
  /\ w \in WVals
  /\ xi \in XiVals
  /\ H \in HSquareVals
  /\ R = Zero
  /\ x0 \in X0Vals
  /\ P0 \in P0PosDefVals
  /\ pc = "start"
  /\ true_xs = Unset
  /\ synth_ys = Unset
  /\ kalman_mus = Unset
  /\ kalman_Ps = Unset
  /\ kalman_gains = Unset
  /\ k = 0
  /\ mu_last = Unset
  /\ P_last = Unset
  /\ mu_f = Unset
  /\ P_f = Unset
  /\ K = Unset

NextPerfect ==
  \/ Simulate
  \/ MeasureStep
  \/ InitFilter
  \/ KalmanStep
  \/ KalmanFail
  \/ LoopExit

SpecPerfect == InitPerfect /\ [][NextPerfect]_vars

(* ------------------------------ properties ----------------------------- *)
\* the histories exist: the script has passed lines 77-79
Running == pc \in {"filter", "done", "LinAlgError"}

\* a configuration the specification calls valid
ValidCfg == RGt0(dt) /\ T >= 0 /\ RGeq0(R)

IsSym(P) == P[1][2] = P[2][1]
\* a 2x2 array is symmetric positive-semidefinite: its diagonal is >= 0 and
\* so is the Schur complement of its first entry
PSD(P) == /\ IsSym(P)
          /\ RGeq0(P[1][1])
          /\ RGeq0(P[2][2])
          /\ IF RIsZero(P[1][1]) THEN RIsZero(P[1][2])
             ELSE RGeq0(RSub(P[2][2], RMul(RDiv(P[1][2], P[1][1]), P[1][2])))

NoNaN(X) == \A i \in 1..Rows(X) : \A j \in 1..Cols(X) : ~IsNaN(X[i][j])
Column(v) == Transpose(<<v>>)

\* C1: after every completed step of the loop, the step started from the
\* last entries of the histories (the output of the step before it), and
\* what it appended is the reference Kalman step on them and on the
\* observation it consumed: mu_f = M mu, P_f = M P M^T with nothing added,
\* S = R + H P_f H^T non-singular, K S = (H P_f)^T,
\* mu_new = mu_f - K (H mu_f - y), P_new = P_f - K (H P_f).
C1_ReferenceStep ==
  (pc \in {"filter", "done"} /\ k >= 1) =>
    LET y == Column(synth_ys[k])
        S == BAdd(AsMat0(R), MatMul(MatMul(H, P_f), Transpose(H)))
    IN /\ IsSym(P_last)
       /\ mu_last = kalman_mus[k]
       /\ P_last = kalman_Ps[k]
       /\ mu_f = MatMul(M, mu_last)
       /\ P_f = MatMul(M, MatMul(P_last, Transpose(M)))
       /\ ~Singular(S)
       /\ MatMul(K, S) = Transpose(MatMul(H, P_f))
       /\ kalman_gains[k] = K
       /\ kalman_mus[k + 1] = BSub(mu_f, MatMul(K, BSub(MatMul(H, mu_f), y)))
       /\ kalman_Ps[k + 1] = BSub(P_f, MatMul(MatMul(K, H), P_f))
       /\ Len(kalman_mus) = k + 1
       /\ Len(kalman_Ps) = k + 1

C1_Witness ==
  /\ pc = "done"
  /\ k >= 2
  /\ ValidCfg
  /\ ~RIsZero(K[1][1])
  /\ kalman_mus[k + 1] # mu0
  /\ kalman_mus[k + 1] # kalman_mus[k]

\* C2: for every k in 1..T the mean stored at index k is the forecast of the
\* mean at index k-1 corrected with the observation of index k, the one made
\* from the true state x_k.
C2_AlignedByIndex ==
  (Running /\ ValidCfg) =>
    \A j \in 1..k :
      LET mf == MatMul(M, kalman_mus[j])
          y == Column(synth_ys[j + 1])
      IN kalman_mus[j + 1] =
           BSub(mf, MatMul(kalman_gains[j], BSub(MatMul(H, mf), y)))

\* C3: in every completed step with R >= 0, the forecast covariance of the
\* step minus the corrected covariance it appended is positive-semidefinite.
C3_CorrectedBelowForecast ==
  (pc \in {"filter", "done"} /\ k >= 1 /\ RGeq0(R)) =>
    PSD(BSub(P_f, kalman_Ps[k + 1]))

C3_Witness ==
  /\ pc = "filter"
  /\ k >= 2
  /\ RGt0(R)
  /\ P_f # kalman_Ps[k + 1]
  /\ P0 # I

\* C4 as stated: with R >= 0 and a valid configuration, every entry of the
\* covariance history is below the entry before it in the Loewner order.
C4_NonIncreasing ==
  (Running /\ ValidCfg) =>
    \A j \in 1..k : PSD(BSub(kalman_Ps[j], kalman_Ps[j + 1]))

\* C4 as amended: with R >= 0, every entry of the covariance history is
\* below the forecast M P M^T of the entry before it in the Loewner order.
C4_BelowForecastOfPrevious ==
  (Running /\ RGeq0(R)) =>
    \A j \in 1..k :
      PSD(BSub(MatMul(M, MatMul(kalman_Ps[j], Transpose(M))),
               kalman_Ps[j + 1]))

C4_Witness ==
  /\ Running
  /\ ValidCfg
  /\ k >= 2
  /\ ~PSD(BSub(kalman_Ps[1], kalman_Ps[2]))
  /\ kalman_Ps[3] # MatMul(M, MatMul(kalman_Ps[2], Transpose(M)))

\* C5: with R = 0, p = n, H invertible and P0 positive definite, the run of
\* T steps completes and every mean of index k >= 1 is the true state x_k.
C5_PerfectSensor ==
  (pc \in {"done", "LinAlgError"}) =>
    /\ pc = "done"
    /\ \A j \in 1..T : kalman_mus[j + 1] = Column(true_xs[j + 1])

\* the histories after j steps, computed from the observations ys and from
\* M, H, R, P0 alone
RECURSIVE Replay(_, _)
Replay(ys, j) ==
  IF j = 0 THEN [mus |-> <<mu0>>, Ps |-> <<P0>>, gains |-> <<>>]
  ELSE LET r == Replay(ys, j - 1)
           mf == MatMul(M, r.mus[j])
           Pf == MatMul(MatMul(M, r.Ps[j]), Transpose(M))
           Kk == Gain(Pf)
       IN [mus |-> Append(r.mus, NewMu(mf, Kk, ys[j])),
           Ps |-> Append(r.Ps, NewP(Pf, Kk)),
           gains |-> Append(r.gains, Kk)]

\* C6: the three histories are determined by M, H, R, the prior and the
\* observations consumed so far; the true states and x0 have no part in
\* them, and the prior is (0, P0) whatever x0 is.
C6_BlindToTrueStates ==
  Running =>
    /\ kalman_mus[1] = mu0
    /\ kalman_Ps[1] = P0
    /\ LET r == Replay(synth_ys, k)
       IN /\ kalman_mus = r.mus
          /\ kalman_Ps = r.Ps
          /\ kalman_gains = r.gains

C6_Witness ==
  /\ pc = "done"
  /\ k >= 2
  /\ \E j \in 1..k : synth_ys[j] # MatVec(H, true_xs[j])
  /\ ~RIsZero(K[1][1])
  /\ NoNaN(kalman_mus[k + 1])

\* the innovation covariance of the step that starts from covariance P
SOf(P) == BAdd(AsMat0(R), MatMul(MatMul(H, Forecast_P(P)), Transpose(H)))

C7_State ==
  /\ Running =>
       \A j \in 1..Len(kalman_gains) :
         /\ ~Singular(SOf(kalman_Ps[j]))
         /\ NoNaN(kalman_gains[j])
         /\ NoNaN(kalman_Ps[j + 1])
         /\ NoNaN(kalman_mus[j + 1]) \/ \E i \in 1..j : ~NoNaN(<<synth_ys[i]>>)
  /\ pc = "LinAlgError" =>
       /\ k < T
       /\ Singular(SOf(kalman_Ps[k + 1]))
       /\ Len(kalman_mus) = k + 1
       /\ Len(kalman_Ps) = k + 1
       /\ Len(kalman_gains) = k

C7_Step ==
  /\ (pc = "filter" /\ LoopCond /\ Singular(SOf(Last(kalman_Ps)))) =>
       (pc' = "LinAlgError" /\ UNCHANGED hist)
  /\ pc = "LinAlgError" => UNCHANGED <<pc, hist>>

\* C7: a step whose innovation covariance is singular ends the run in the
\* state LinAlgError and appends nothing, and nothing is appended after it:
\* the histories then hold k+1 means, k+1 covariances and k gains, each
\* stored triple comes from a step whose solve succeeded, and no stored
\* value is a nan the solve produced.
C7_SingularEndsRun == []C7_State /\ [][C7_Step]_vars

C7_Witness ==
  /\ pc = "LinAlgError"
  /\ ValidCfg
  /\ k >= 1

\* C8: a run with dt <= 0, T < 0 or R < 0 is rejected before anything
\* executes: it never leaves the start of the script.
C8_InvalidRejected ==
  ~ValidCfg => pc = "start"

\* C9: with R >= 0 and a symmetric positive-semidefinite P0, every entry of
\* the covariance history is symmetric positive-semidefinite.
C9_CovariancesPSD ==
  (Running /\ RGeq0(R)) =>
    \A j \in 1..Len(kalman_Ps) : PSD(kalman_Ps[j])

C9_Witness ==
  /\ pc = "done"
  /\ k >= 2
  /\ RGeq0(R)
  /\ kalman_Ps[k + 1] # kalman_Ps[k]
  /\ kalman_Ps[k + 1][1][2] # Zero

C10_State ==
  Running =>
    /\ Len(kalman_mus) = k + 1
    /\ Len(kalman_Ps) = k + 1
    /\ Len(kalman_gains) = k
    /\ k <= Max2(T, 0)
    /\ pc = "done" => k = Max2(T, 0)

C10_Step ==
  (Running /\ hist' # hist) =>
    /\ k' = k + 1
    /\ \E m \in {kalman_mus'[k + 2]} : kalman_mus' = Append(kalman_mus, m)
    /\ \E P \in {kalman_Ps'[k + 2]} : kalman_Ps' = Append(kalman_Ps, P)
    /\ \E g \in {kalman_gains'[k + 1]} : kalman_gains' = Append(kalman_gains, g)

\* C10: after j completed steps the mean and covariance histories have j+1
\* entries and the gain history j; a step appends one entry to each history
\* and changes no earlier entry; the loop never runs more than T steps and
\* exits normally after exactly T.
C10_AppendOnly == []C10_State /\ [][C10_Step]_vars

C10_Witness ==
  /\ pc = "done"
  /\ T >= 2
  /\ k = T

=============================================================================
